---- MODULE Spec2Model ----
(***************************************************************************)
(* Model of gnss_lib_py/parsers/precise_ephemerides.py: parse_sp3 and      *)
(* parse_clockfile, the Sp3 / Clk per-satellite series and the NUMSATS     *)
(* constellation registry.                                                 *)
(*                                                                         *)
(* Text is modelled at the level the code inspects it: a line is a count   *)
(* of leading blanks and the list of its whitespace separated tokens, a    *)
(* token is a sequence of one-character strings.  Python floats are        *)
(* fixed-point numbers counted in thousandths (1.5 is 1500).  Python list  *)
(* position i is TLA+ position i+1.                                        *)
(***************************************************************************)
EXTENDS Integers, Sequences, FiniteSets, TLC

(***************************************************************************)
(* Bound of the model: the longest file read by a call.                    *)
(***************************************************************************)
MaxLines == 4
\* The files given to two calls of one process have at most MaxPairLines.
MaxPairLines == 2

(***************************************************************************)
(* Python built-ins used by the parsers.                                   *)
(***************************************************************************)
Digits == {"0", "1", "2", "3", "4", "5", "6", "7", "8", "9"}

DigitVal(c) ==
    CASE c = "0" -> 0 [] c = "1" -> 1 [] c = "2" -> 2 [] c = "3" -> 3
      [] c = "4" -> 4 [] c = "5" -> 5 [] c = "6" -> 6 [] c = "7" -> 7
      [] c = "8" -> 8 [] c = "9" -> 9

RECURSIVE DigitsVal(_)
DigitsVal(s) ==
    IF s = <<>> THEN 0
    ELSE DigitsVal(SubSeq(s, 1, Len(s) - 1)) * 10 + DigitVal(s[Len(s)])

AllDigits(s) == \A i \in 1..Len(s) : s[i] \in Digits

Signed(s) == s # <<>> /\ s[1] \in {"-", "+"}
Unsigned(s) == IF Signed(s) THEN Tail(s) ELSE s
SignOf(s) == IF s # <<>> /\ s[1] = "-" THEN -1 ELSE 1

\* int(s): an optional sign and at least one digit, or ValueError.
PyInt(s) ==
    LET body == Unsigned(s)
    IN  IF body # <<>> /\ AllDigits(body)
        THEN [ok |-> TRUE, val |-> SignOf(s) * DigitsVal(body)]
        ELSE [ok |-> FALSE, val |-> 0]

DotAt(s) == {i \in 1..Len(s) : s[i] = "."}

\* The first three decimals of a fraction, as thousandths.
Thousandths(frac) ==
    LET d(i) == IF i <= Len(frac) THEN DigitVal(frac[i]) ELSE 0
    IN  d(1) * 100 + d(2) * 10 + d(3)

\* float(s): an optional sign, digits with at most one point and at least
\* one digit, or ValueError.  The value is counted in thousandths.
PyFloat(s) ==
    LET body == Unsigned(s)
        dots == DotAt(body)
        p    == IF dots = {} THEN Len(body) + 1 ELSE CHOOSE i \in dots : TRUE
        ip   == SubSeq(body, 1, p - 1)
        fp   == SubSeq(body, p + 1, Len(body))
    IN  IF Cardinality(dots) <= 1 /\ AllDigits(ip) /\ AllDigits(fp)
           /\ (ip # <<>> \/ fp # <<>>)
        THEN [ok |-> TRUE,
              val |-> SignOf(s) * (DigitsVal(ip) * 1000 + Thousandths(fp))]
        ELSE [ok |-> FALSE, val |-> 0]

\* int(x) of a float: truncation toward zero.
FloatToInt(x) == IF x >= 0 THEN x \div 1000 ELSE -((-x) \div 1000)

\* A variant of list.append that inserts at the front.
ListPrepend(l, v) == <<v>> \o l

\* The list after list.append(v).
ListAppend(l, v) == Append(l, v)

\* seq[i] of a Python list of length n: the TLA+ position, 0 for IndexError.
PyIndex(n, i) ==
    IF i >= 0 /\ i < n THEN i + 1
    ELSE IF i < 0 /\ i >= -n THEN n + i + 1
    ELSE 0

(***************************************************************************)
(* datetime(year, month, day, hour, minute, second, tzinfo=utc)            *)
(***************************************************************************)
IsLeap(y) == (y % 4 = 0 /\ y % 100 # 0) \/ y % 400 = 0

DaysInMonth(y, m) ==
    IF m = 2 THEN (IF IsLeap(y) THEN 29 ELSE 28)
    ELSE IF m \in {4, 6, 9, 11} THEN 30 ELSE 31

\* The value standing for no datetime (the constructor raised ValueError).
NoTime ==
    [year |-> 0, month |-> 0, day |-> 0, hour |-> 0, minute |-> 0,
     second |-> 0]

datetime(y, mo, d, h, mi, s) ==
    IF /\ y \in 1..9999 /\ mo \in 1..12 /\ d >= 1 /\ d <= DaysInMonth(y, mo)
       /\ h \in 0..23 /\ mi \in 0..59 /\ s \in 0..59
    THEN [ok |-> TRUE,
          val |-> [year |-> y, month |-> mo, day |-> d,
                   hour |-> h, minute |-> mi, second |-> s]]
    ELSE [ok |-> FALSE, val |-> NoTime]

\* Days from 1970-01-01 to the civil date y-m-d.
DaysFromCivil(y, m, d) ==
    LET yy  == IF m <= 2 THEN y - 1 ELSE y
        era == yy \div 400
        yoe == yy - era * 400
        mp  == IF m > 2 THEN m - 3 ELSE m + 9
        doy == (153 * mp + 2) \div 5 + d - 1
        doe == yoe * 365 + yoe \div 4 - yoe \div 100 + doy
    IN  era * 146097 + doe - 719468

\* gnss_lib_py.utils.time_conversions.datetime_to_gps_millis with
\* add_leap_secs = False: milliseconds since 1980-01-06T00:00:00Z.
datetime_to_gps_millis(t) ==
    LET millis ==
          [u \in {t} |->
              LET days == DaysFromCivil(u.year, u.month, u.day)
                          - DaysFromCivil(1980, 1, 6)
              IN  (((days * 24 + u.hour) * 60 + u.minute) * 60 + u.second)
                  * 1000]
    IN  millis[t]

(***************************************************************************)
(* NUMSATS: constellation -> (number of satellites, designator letter)     *)
(***************************************************************************)
NUMSATS ==
    [gps     |-> <<32, "G">>,
     galileo |-> <<36, "E">>,
     beidou  |-> <<46, "C">>,
     glonass |-> <<24, "R">>,
     qzss    |-> <<3, "J">>]

(***************************************************************************)
(* class Sp3 and class Clk: a freshly constructed object, and __eq__.      *)
(***************************************************************************)
Sp3Init ==
    [const |-> "None", xpos |-> <<>>, ypos |-> <<>>, zpos |-> <<>>,
     tym |-> <<>>, utc_time |-> <<>>]

\* A variant of the class without __eq__: == is the default comparison, by
\* identity.
Sp3EqIdentity(a, b) == a.self = b.self

Sp3Eq(a, b) ==
    /\ a.const = b.const
    /\ a.xpos = b.xpos
    /\ a.ypos = b.ypos
    /\ a.zpos = b.zpos
    /\ a.tym = b.tym
    /\ a.utc_time = b.utc_time

ClkInit ==
    [const |-> "None", clk_bias |-> <<>>, utc_time |-> <<>>, tym |-> <<>>]

ClkEq(a, b) ==
    /\ a.const = b.const
    /\ a.clk_bias = b.clk_bias
    /\ a.tym = b.tym
    /\ a.utc_time = b.utc_time

(***************************************************************************)
(* The text the calls are given.                                           *)
(***************************************************************************)
Line(lead, tok) == [lead |-> lead, tok |-> tok]

Y1980 == <<"1", "9", "8", "0">>
Sec00 == <<"0", ".", "0">>
Sec15 == <<"1", ".", "5">>
Km15  == <<"1", ".", "5">>
Km25  == <<"2", ".", "5">>
Km35  == <<"-", "3", ".", "5">>
NotNumber == <<"x">>

\* "*  1980  1  6  0  0  <sec>"
Sp3Epoch(sec) ==
    Line(0, << <<"*">>, Y1980, <<"1">>, <<"6">>, <<"0">>, <<"0">>, sec >>)

\* "P<code><num>  1.5  <y>  -3.5"
Sp3Pos(lead, code, num, y) ==
    Line(lead, << <<"P", code>> \o num, Km15, y, Km35 >>)

\* Well-formed lines: every field reads and every number has a slot.
Sp3Lines ==
    { Line(0, <<>>),                                  \* blank line
      Line(0, << <<"E", "O", "F">> >>),               \* another record type
      Sp3Epoch(Sec00),
      Sp3Epoch(Sec15),
      Sp3Pos(0, "J", <<"0", "1">>, Km25),
      Sp3Pos(0, "J", <<"0", "0">>, Km25),
      Sp3Pos(0, "J", <<"-", "1">>, Km25),
      Sp3Pos(1, "G", <<"0", "1">>, Km25) }

\* Lines with a field that cannot be read or a number without a slot.
Sp3BadLines ==
    { Sp3Epoch(NotNumber),
      Sp3Pos(0, "J", <<"0", "4">>, Km25),
      Sp3Pos(0, "J", <<"0", "1">>, NotNumber),
      Sp3Pos(0, "G", <<"0", "1">>, NotNumber) }

OF_SOLN_SATS == << <<"O", "F">>, <<"S", "O", "L", "N">>, <<"S", "A", "T", "S">> >>
END_OF_HEADER == << <<"E", "N", "D">>, <<"O", "F">>, <<"H", "E", "A", "D", "E", "R">> >>

\* "AS <code><num>  1980 1 6 0 0 <sec>  1  <bias>"
ClkAS(lead, code, num, sec, bias) ==
    Line(lead, << <<"A", "S">>, <<code>> \o num, Y1980, <<"1">>, <<"6">>,
                  <<"0">>, <<"0">>, sec, <<"1">>, bias >>)

ClkLines ==
    { Line(0, << <<"3">> >> \o OF_SOLN_SATS),
      Line(0, END_OF_HEADER),
      Line(0, OF_SOLN_SATS \o END_OF_HEADER),
      ClkAS(0, "J", <<"0", "1">>, Sec00, Km15),
      ClkAS(0, "J", <<"0", "1">>, Sec15, Km25),
      ClkAS(0, "J", <<"0", "0">>, Sec00, Km15),
      ClkAS(0, "J", <<"-", "1">>, Sec00, Km15),
      ClkAS(1, "G", <<"0", "1">>, Sec00, Km15) }

ClkBadLines ==
    { ClkAS(0, "J", <<"0", "4">>, Sec00, Km15),
      ClkAS(0, "J", <<"0", "1">>, NotNumber, Km15),
      ClkAS(0, "J", <<"0", "1">>, Sec00, NotNumber),
      ClkAS(0, "G", <<"0", "1">>, Sec00, NotNumber) }

\* The files of at most MaxLines lines; a bad line, if any, is the last
\* line (the calls read no record after the one that raises).
Files(lines, bad) ==
    UNION {[1..n -> lines] : n \in 0..MaxLines}
    \cup UNION {{Append(f, l) : f \in [1..n -> lines], l \in bad} :
                n \in 0..(MaxLines - 1)}

Parsers == {"sp3", "clk"}
Paths == {[isStr |-> FALSE, exists |-> FALSE],
          [isStr |-> TRUE, exists |-> FALSE],
          [isStr |-> TRUE, exists |-> TRUE]}
\* A supported key and an unsupported one; the 33-slot gps store is requested
\* in the two-call machine below.
Requested == {"qzss", "mars"}

\* What two threads of one process are given: valid arguments, and lines
\* whose fields read.  Thread 1 asks for qzss, thread 2 for qzss or gps
\* (the same calls with the threads exchanged are left out).
Threads == {1, 2}
PairRequested(t) == IF t = 1 THEN {"qzss"} ELSE {"qzss", "gps"}
PairSp3Lines ==
    { Sp3Epoch(Sec15),
      Sp3Pos(0, "J", <<"0", "1">>, Km25),
      Sp3Pos(1, "G", <<"0", "1">>, Km25) }
PairClkLines ==
    { Line(0, OF_SOLN_SATS \o END_OF_HEADER),
      ClkAS(0, "J", <<"0", "1">>, Sec15, Km25),
      ClkAS(0, "G", <<"0", "1">>, Sec00, Km15) }
PairFiles(lines) == UNION {[1..n -> lines] : n \in 0..MaxPairLines}

\* A thread that has made no call.
NotCalled ==
    [pc |-> "idle", parser |-> "none", constellation |-> "none",
     file |-> <<>>, list |-> <<>>, idx |-> 0, ct |-> <<>>, gm |-> <<>>,
     store |-> <<>>, outcome |-> "none"]

(***************************************************************************)
(* State of one call.                                                      *)
(***************************************************************************)
VARIABLES
    pc,             \* position of the call in the function body
    parser,         \* "sp3": parse_sp3, "clk": parse_clockfile
    input_path,     \* the argument: is it a str, does the path exist
    constellation,  \* the argument
    fsLog,          \* filesystem operations made so far, in order
    infile,         \* the file object: "none", "open" or "closed"
    contents,       \* the lines of the file as they were read
    data,           \* parse_sp3: the stripped lines
    clk,            \* parse_clockfile: the lines, deleted from in place
    line,           \* parse_clockfile: the index of the marker loops
    timelist,       \* parse_clockfile: the split 'AS' lines
    idx,            \* position of the running for loop (TLA+ position)
    curr_time,      \* <<>> while the local is unbound, else <<datetime>>
    gps_millis,     \* <<>> while the local is unbound, else <<int>>
    sp3data,        \* the list of Sp3 objects
    clkdata,        \* the list of Clk objects
    warned,         \* the warnings emitted: the PRN list of each
    outcome         \* "none", "returned" or the exception raised

\* State of a process in which two threads call the functions.
VARIABLES
    thread,         \* thread[t]: the call thread t makes, with its locals
    heap            \* the list objects allocated so far and their elements

callVars == <<pc, parser, input_path, constellation, fsLog, infile, contents,
              data, clk, line, timelist, idx, curr_time, gps_millis, sp3data,
              clkdata, warned, outcome>>

pairVars == <<thread, heap>>

vars == <<callVars, pairVars>>

Init ==
    /\ pc = "idle"
    /\ parser = "none"
    /\ input_path = [isStr |-> FALSE, exists |-> FALSE]
    /\ constellation = "none"
    /\ fsLog = <<>>
    /\ infile = "none"
    /\ contents = <<>>
    /\ data = <<>>
    /\ clk = <<>>
    /\ line = 0
    /\ timelist = <<>>
    /\ idx = 0
    /\ curr_time = <<>>
    /\ gps_millis = <<>>
    /\ sp3data = <<>>
    /\ clkdata = <<>>
    /\ warned = <<>>
    /\ outcome = "none"
    /\ thread = [t \in Threads |-> NotCalled]
    /\ heap = <<>>

\* A caller invokes one of the two functions.
Call ==
    /\ pc = "idle"
    /\ \E f \in Parsers, p \in Paths, c \in Requested :
          /\ parser' = f
          /\ input_path' = p
          /\ constellation' = c
    /\ pc' = "checks"
    /\ UNCHANGED <<fsLog, infile, contents, data, clk, line, timelist, idx,
                   curr_time, gps_millis, sp3data, clkdata, warned, outcome>>
    /\ UNCHANGED pairVars

\* An exception leaves the function.
Raise(e) == pc' = "done" /\ outcome' = e

\* A variant of the loop in which the body runs under try/except: continue.
LoopStepSwallow(err) == idx' = idx + 1 /\ UNCHANGED <<pc, outcome>>

\* The end of one iteration of a for loop: an exception raised in the body
\* leaves the function, otherwise the loop goes on with the next element.
LoopStep(err) ==
    IF err # ""
    THEN Raise(err) /\ idx' = idx
    ELSE idx' = idx + 1 /\ UNCHANGED <<pc, outcome>>

(***************************************************************************)
(* Steps common to both functions.                                         *)
(***************************************************************************)
\* A variant of the path checks without the existence check.
PathChecksNoExists(next) ==
    /\ fsLog' = fsLog
    /\ IF ~input_path.isStr
       THEN Raise("TypeError")
       ELSE pc' = next /\ outcome' = outcome

\* isinstance(input_path, str), then os.path.exists(input_path).
PathChecks(next) ==
    IF ~input_path.isStr
    THEN Raise("TypeError") /\ fsLog' = fsLog
    ELSE /\ fsLog' = Append(fsLog, "exists")
         /\ IF ~input_path.exists
            THEN Raise("OSError")
            ELSE pc' = next /\ outcome' = outcome

\* A variant of the allocation that leaves const as the constructor set it.
NewStoreUntagged(obj, c) == [i \in 1..(NUMSATS[c][1] + 1) |-> obj]

\* The list of nsvs+1 fresh objects, each tagged with the constellation.
NewStore(obj, c) == [i \in 1..(NUMSATS[c][1] + 1) |-> [obj EXCEPT !.const = c]]

\* The PRNs 1..nsvs whose tym is empty.
RECURSIVE NoData(_, _, _)
NoData(store, prn, nsvs) ==
    IF prn > nsvs THEN <<>>
    ELSE (IF Len(store[prn + 1].tym) = 0 THEN <<prn>> ELSE <<>>)
         \o NoData(store, prn + 1, nsvs)

\* A variant that warns when any PRN is without data.
WarningsPerSatellite(store, c) ==
    LET no_data_arrays == NoData(store, 1, NUMSATS[c][1])
    IN  IF Len(no_data_arrays) > 0
        THEN Append(warned, no_data_arrays)
        ELSE warned

\* warnings.warn when every PRN is without data.
Warnings(store, c) ==
    LET no_data_arrays == NoData(store, 1, NUMSATS[c][1])
    IN  IF Len(no_data_arrays) = NUMSATS[c][1]
        THEN Append(warned, no_data_arrays)
        ELSE warned

(***************************************************************************)
(* Reading one field of a split line: temp[i] may raise IndexError, the    *)
(* conversion ValueError.  i is the TLA+ position (Python index + 1).      *)
(***************************************************************************)
IntField(temp, i) ==
    IF Len(temp) < i THEN [err |-> "IndexError", val |-> 0]
    ELSE LET r == PyInt(temp[i])
         IN  IF r.ok THEN [err |-> "", val |-> r.val]
             ELSE [err |-> "ValueError", val |-> 0]

\* A variant of the float field that reads text that is no number as 0.0.
FloatFieldLenient(temp, i) ==
    IF Len(temp) < i THEN [err |-> "IndexError", val |-> 0]
    ELSE [err |-> "", val |-> PyFloat(temp[i]).val]

FloatField(temp, i) ==
    IF Len(temp) < i THEN [err |-> "IndexError", val |-> 0]
    ELSE LET r == PyFloat(temp[i])
         IN  IF r.ok THEN [err |-> "", val |-> r.val]
             ELSE [err |-> "ValueError", val |-> 0]

\* The error of the first failing result of a list evaluated left to right.
RECURSIVE FirstErr(_)
FirstErr(rs) ==
    IF rs = <<>> THEN ""
    ELSE IF Head(rs).err # "" THEN Head(rs).err ELSE FirstErr(Tail(rs))

\* datetime(int(f[1]), ..., int(f[5]), int(float(f[6]))) over six fields
\* starting at TLA+ position i, and its gps_millis.
ReadTime(temp, i) ==
    LET y  == IntField(temp, i)
        mo == IntField(temp, i + 1)
        d  == IntField(temp, i + 2)
        h  == IntField(temp, i + 3)
        mi == IntField(temp, i + 4)
        s  == FloatField(temp, i + 5)
        e  == FirstErr(<<y, mo, d, h, mi, s>>)
        t  == datetime(y.val, mo.val, d.val, h.val, mi.val, FloatToInt(s.val))
    IN  IF e # "" THEN [err |-> e, time |-> NoTime]
        ELSE [err |-> IF t.ok THEN "" ELSE "ValueError", time |-> t.val]

(***************************************************************************)
(* parse_sp3                                                               *)
(***************************************************************************)
\* line.strip(): leading (and trailing) blanks are removed.
Strip(l) == [l EXCEPT !.lead = 0]

\* len(dval) == 0
Sp3IsBlank(dval) == dval.tok = <<>>
\* dval[0] == '*'
Sp3IsEpoch(dval) == dval.tok # <<>> /\ dval.tok[1][1] = "*"
\* 'P' in dval[0]
Sp3IsPos(dval) == dval.tok # <<>> /\ dval.tok[1][1] = "P"

\* A variant of the epoch header in which only the first header of the
\* file sets the context.
Sp3HeaderFirstOnly(temp, ct, gm) ==
    LET r == ReadTime(temp, 2)
    IN  IF r.err # "" \/ ct # <<>> THEN [err |-> r.err, ct |-> ct, gm |-> gm]
        ELSE [err |-> "", ct |-> <<r.time>>,
              gm |-> <<datetime_to_gps_millis(r.time)>>]

\* Lines 122-130: the epoch header sets curr_time and gps_millis.
Sp3Header(temp, ct, gm) ==
    LET r == ReadTime(temp, 2)
    IN  IF r.err # "" THEN [err |-> r.err, ct |-> ct, gm |-> gm]
        ELSE [err |-> "", ct |-> <<r.time>>,
              gm |-> <<datetime_to_gps_millis(r.time)>>]

\* A variant of the position record that appends the coordinates before
\* the two times.
Sp3PositionCoordsFirst(sd, temp, ct, gm, c) ==
    IF Len(temp[1]) < 2 THEN [err |-> "IndexError", sd |-> sd]
    ELSE IF temp[1][2] # NUMSATS[c][2] THEN [err |-> "", sd |-> sd]
    ELSE
    LET prn == PyInt(SubSeq(temp[1], 3, Len(temp[1])))
        k   == PyIndex(Len(sd), prn.val)
        x   == FloatField(temp, 2)
        y   == FloatField(temp, 3)
        z   == FloatField(temp, 4)
        sd1 == [sd  EXCEPT ![k].xpos = ListAppend(@, x.val * 1000)]
        sd2 == [sd1 EXCEPT ![k].ypos = ListAppend(@, y.val * 1000)]
        sd3 == [sd2 EXCEPT ![k].zpos = ListAppend(@, z.val * 1000)]
        sd4 == [sd3 EXCEPT ![k].utc_time = ListAppend(@, ct[1])]
        sd5 == [sd4 EXCEPT ![k].tym = ListAppend(@, gm[1])]
    IN  IF ~prn.ok THEN [err |-> "ValueError", sd |-> sd]
        ELSE IF k = 0 THEN [err |-> "IndexError", sd |-> sd]
        ELSE IF x.err # "" THEN [err |-> x.err, sd |-> sd]
        ELSE IF y.err # "" THEN [err |-> y.err, sd |-> sd1]
        ELSE IF z.err # "" THEN [err |-> z.err, sd |-> sd2]
        ELSE IF ct = <<>> THEN [err |-> "UnboundLocalError", sd |-> sd3]
        ELSE IF gm = <<>> THEN [err |-> "UnboundLocalError", sd |-> sd4]
        ELSE [err |-> "", sd |-> sd5]

\* Lines 132-142: the position record is appended to sp3data[prn], one
\* list after the other; an exception leaves the lists appended so far.
Sp3Position(sd, temp, ct, gm, c) ==
    IF Len(temp[1]) < 2 THEN [err |-> "IndexError", sd |-> sd]
    ELSE IF temp[1][2] # NUMSATS[c][2] THEN [err |-> "", sd |-> sd]
    ELSE
    LET prn == PyInt(SubSeq(temp[1], 3, Len(temp[1])))
        k   == PyIndex(Len(sd), prn.val)
        x   == FloatField(temp, 2)
        y   == FloatField(temp, 3)
        z   == FloatField(temp, 4)
        sd1 == [sd  EXCEPT ![k].utc_time = ListAppend(@, ct[1])]
        sd2 == [sd1 EXCEPT ![k].tym = ListAppend(@, gm[1])]
        sd3 == [sd2 EXCEPT ![k].xpos = ListAppend(@, x.val * 1000)]
        sd4 == [sd3 EXCEPT ![k].ypos = ListAppend(@, y.val * 1000)]
        sd5 == [sd4 EXCEPT ![k].zpos = ListAppend(@, z.val * 1000)]
    IN  IF ~prn.ok THEN [err |-> "ValueError", sd |-> sd]
        ELSE IF k = 0 THEN [err |-> "IndexError", sd |-> sd]
        ELSE IF ct = <<>> THEN [err |-> "UnboundLocalError", sd |-> sd]
        ELSE IF gm = <<>> THEN [err |-> "UnboundLocalError", sd |-> sd1]
        ELSE IF x.err # "" THEN [err |-> x.err, sd |-> sd2]
        ELSE IF y.err # "" THEN [err |-> y.err, sd |-> sd3]
        ELSE IF z.err # "" THEN [err |-> z.err, sd |-> sd4]
        ELSE [err |-> "", sd |-> sd5]

\* A variant of the loop body that ends in else: raise ValueError for a
\* line that is neither an epoch header nor a position record.
Sp3StepStrict(dval, sd, ct, gm, c) ==
    IF Sp3IsBlank(dval) THEN [err |-> "", sd |-> sd, ct |-> ct, gm |-> gm]
    ELSE IF Sp3IsEpoch(dval)
    THEN [sd |-> sd] @@ Sp3Header(dval.tok, ct, gm)
    ELSE IF Sp3IsPos(dval)
    THEN [ct |-> ct, gm |-> gm] @@ Sp3Position(sd, dval.tok, ct, gm, c)
    ELSE [err |-> "ValueError", sd |-> sd, ct |-> ct, gm |-> gm]

\* Lines 117-142: one iteration of the loop over data.  The two tests of
\* dval[0] exclude each other, so at most one branch runs.
Sp3Step(dval, sd, ct, gm, c) ==
    IF Sp3IsBlank(dval) THEN [err |-> "", sd |-> sd, ct |-> ct, gm |-> gm]
    ELSE IF Sp3IsEpoch(dval)
    THEN [sd |-> sd] @@ Sp3Header(dval.tok, ct, gm)
    ELSE IF Sp3IsPos(dval)
    THEN [ct |-> ct, gm |-> gm] @@ Sp3Position(sd, dval.tok, ct, gm, c)
    ELSE [err |-> "", sd |-> sd, ct |-> ct, gm |-> gm]

\* Lines 95-98.
Sp3Checks ==
    /\ pc = "checks" /\ parser = "sp3"
    /\ PathChecks("load")
    /\ UNCHANGED <<parser, input_path, constellation, infile, contents, data,
                   clk, line, timelist, idx, curr_time, gps_millis, sp3data,
                   clkdata, warned>>
    /\ UNCHANGED pairVars

\* Lines 101-102: the with block opens the file, reads and strips every
\* line and closes the file.
Sp3Load ==
    /\ pc = "load" /\ parser = "sp3"
    /\ \E f \in Files(Sp3Lines, Sp3BadLines) :
          /\ contents' = f
          /\ data' = [i \in 1..Len(f) |-> Strip(f[i])]
    /\ fsLog' = fsLog \o <<"open", "read", "close">>
    /\ infile' = "closed"
    /\ pc' = "registry"
    /\ UNCHANGED <<parser, input_path, constellation, clk, line, timelist,
                   idx, curr_time, gps_millis, sp3data, clkdata, warned,
                   outcome>>
    /\ UNCHANGED pairVars

\* Lines 105-114: the registry lookup and the allocation of the store.
Sp3Registry ==
    /\ pc = "registry" /\ parser = "sp3"
    /\ IF constellation \in DOMAIN NUMSATS
       THEN /\ sp3data' = NewStore(Sp3Init, constellation)
            /\ idx' = 1
            /\ pc' = "loop"
            /\ outcome' = outcome
       ELSE /\ Raise("RuntimeError")
            /\ UNCHANGED <<sp3data, idx>>
    /\ UNCHANGED <<parser, input_path, constellation, fsLog, infile, contents,
                   data, clk, line, timelist, curr_time, gps_millis, clkdata,
                   warned>>
    /\ UNCHANGED pairVars

\* Lines 117-142: the loop body on the next line.
Sp3Line ==
    /\ pc = "loop" /\ parser = "sp3"
    /\ idx <= Len(data)
    /\ \E r \in {Sp3Step(data[idx], sp3data, curr_time, gps_millis,
                         constellation)} :
           /\ sp3data' = r.sd
           /\ curr_time' = r.ct
           /\ gps_millis' = r.gm
           /\ LoopStep(r.err)
    /\ UNCHANGED <<parser, input_path, constellation, fsLog, infile, contents,
                   data, clk, line, timelist, clkdata, warned>>
    /\ UNCHANGED pairVars

\* Lines 144-152: the warning and the return.
Sp3Post ==
    /\ pc = "loop" /\ parser = "sp3"
    /\ idx > Len(data)
    /\ warned' = Warnings(sp3data, constellation)
    /\ pc' = "done"
    /\ outcome' = "returned"
    /\ UNCHANGED <<parser, input_path, constellation, fsLog, infile, contents,
                   data, clk, line, timelist, idx, curr_time, gps_millis,
                   sp3data, clkdata>>
    /\ UNCHANGED pairVars

(***************************************************************************)
(* parse_clockfile                                                         *)
(***************************************************************************)
\* 'OF SOLN SATS' in l: the words of the marker occur in the line, in a row.
Contains(l, words) ==
    \E i \in 1..(Len(l.tok) - Len(words) + 1) :
        SubSeq(l.tok, i, i + Len(words) - 1) = words

\* clk_val[0:2] == 'AS': the first two characters of the unstripped line.
ClkIsAS(l) ==
    /\ l.lead = 0
    /\ l.tok # <<>>
    /\ Len(l.tok[1]) >= 2
    /\ l.tok[1][1] = "A"
    /\ l.tok[1][2] = "S"

\* Lines 258-261: the split 'AS' lines of clk, in order.
RECURSIVE Timelist(_)
Timelist(ls) ==
    IF ls = <<>> THEN <<>>
    ELSE (IF ClkIsAS(Head(ls)) THEN <<Head(ls).tok>> ELSE <<>>)
         \o Timelist(Tail(ls))

\* Lines 264-278: one clock record is appended to clkdata[prn], one list
\* after the other; an exception leaves the lists appended so far.
ClkRecordStep(cd, timelist_val, c) ==
    IF Len(timelist_val) < 2 THEN [err |-> "IndexError", cd |-> cd]
    ELSE
    LET dval == timelist_val[2]
        prn  == PyInt(Tail(dval))
        t    == ReadTime(timelist_val, 3)
        k    == PyIndex(Len(cd), prn.val)
        bias == FloatField(timelist_val, 10)
        cd1  == [cd  EXCEPT ![k].utc_time = ListAppend(@, t.time)]
        cd2  == [cd1 EXCEPT ![k].tym =
                              ListAppend(@, datetime_to_gps_millis(t.time))]
        cd3  == [cd2 EXCEPT ![k].clk_bias = ListAppend(@, bias.val)]
    IN  IF dval[1] # NUMSATS[c][2] THEN [err |-> "", cd |-> cd]
        ELSE IF ~prn.ok THEN [err |-> "ValueError", cd |-> cd]
        ELSE IF t.err # "" THEN [err |-> t.err, cd |-> cd]
        ELSE IF k = 0 THEN [err |-> "IndexError", cd |-> cd]
        ELSE IF bias.err # "" THEN [err |-> bias.err, cd |-> cd2]
        ELSE [err |-> "", cd |-> cd3]

\* Lines 221-224.
ClkChecks ==
    /\ pc = "checks" /\ parser = "clk"
    /\ PathChecks("registry")
    /\ UNCHANGED <<parser, input_path, constellation, infile, contents, data,
                   clk, line, timelist, idx, curr_time, gps_millis, sp3data,
                   clkdata, warned>>
    /\ UNCHANGED pairVars

\* A variant of the registry lookup without the membership test: the
\* subscript NUMSATS[constellation] raises KeyError.
ClkRegistryKeyError ==
    /\ pc = "registry" /\ parser = "clk"
    /\ IF constellation \in DOMAIN NUMSATS
       THEN /\ clkdata' = NewStore(ClkInit, constellation)
            /\ pc' = "read"
            /\ outcome' = outcome
       ELSE /\ Raise("KeyError")
            /\ UNCHANGED clkdata
    /\ UNCHANGED <<parser, input_path, constellation, fsLog, infile, contents,
                   data, clk, line, timelist, idx, curr_time, gps_millis,
                   sp3data, warned>>
    /\ UNCHANGED pairVars

\* Lines 227-236: the registry lookup and the allocation of the store.
ClkRegistry ==
    /\ pc = "registry" /\ parser = "clk"
    /\ IF constellation \in DOMAIN NUMSATS
       THEN /\ clkdata' = NewStore(ClkInit, constellation)
            /\ pc' = "read"
            /\ outcome' = outcome
       ELSE /\ Raise("RuntimeError")
            /\ UNCHANGED clkdata
    /\ UNCHANGED <<parser, input_path, constellation, fsLog, infile, contents,
                   data, clk, line, timelist, idx, curr_time, gps_millis,
                   sp3data, warned>>
    /\ UNCHANGED pairVars

\* A variant of the read without the with block (infile = open(...)): the
\* file stays open until infile.close() of line 280.
ClkReadNoWith ==
    /\ pc = "read" /\ parser = "clk"
    /\ \E f \in Files(ClkLines, ClkBadLines) :
          /\ contents' = f
          /\ clk' = f
    /\ fsLog' = fsLog \o <<"open", "read">>
    /\ infile' = "open"
    /\ line' = 0
    /\ pc' = "soln"
    /\ UNCHANGED <<parser, input_path, constellation, data, timelist, idx,
                   curr_time, gps_millis, sp3data, clkdata, warned, outcome>>
    /\ UNCHANGED pairVars

\* Lines 239-242: the with block opens the file, reads its lines and
\* closes it; line = 0.
ClkRead ==
    /\ pc = "read" /\ parser = "clk"
    /\ \E f \in Files(ClkLines, ClkBadLines) :
          /\ contents' = f
          /\ clk' = f
    /\ fsLog' = fsLog \o <<"open", "read", "close">>
    /\ infile' = "closed"
    /\ line' = 0
    /\ pc' = "soln"
    /\ UNCHANGED <<parser, input_path, constellation, data, timelist, idx,
                   curr_time, gps_millis, sp3data, clkdata, warned, outcome>>
    /\ UNCHANGED pairVars

\* A variant of the first while loop whose body deletes nothing and does
\* not advance: the loop tests the same line again.
ClkStripSolnNoDelete ==
    /\ pc = "soln" /\ parser = "clk"
    /\ IF PyIndex(Len(clk), line) = 0
       THEN Raise("IndexError") /\ UNCHANGED <<clk, line>>
       ELSE IF ~Contains(clk[PyIndex(Len(clk), line)], OF_SOLN_SATS)
       THEN UNCHANGED <<clk, line, pc, outcome>>
       ELSE /\ line' = 0
            /\ pc' = "eoh"
            /\ UNCHANGED <<clk, outcome>>
    /\ UNCHANGED <<parser, input_path, constellation, fsLog, infile, contents,
                   data, timelist, idx, curr_time, gps_millis, sp3data,
                   clkdata, warned>>
    /\ UNCHANGED pairVars

\* A variant of the first while loop that steps over the lines before the
\* marker (line += 1) and deletes none.
ClkStripSolnScanOnly ==
    /\ pc = "soln" /\ parser = "clk"
    /\ IF PyIndex(Len(clk), line) = 0
       THEN Raise("IndexError") /\ UNCHANGED <<clk, line>>
       ELSE IF ~Contains(clk[PyIndex(Len(clk), line)], OF_SOLN_SATS)
       THEN /\ line' = line + 1
            /\ UNCHANGED <<clk, pc, outcome>>
       ELSE /\ line' = 0
            /\ pc' = "eoh"
            /\ UNCHANGED <<clk, outcome>>
    /\ UNCHANGED <<parser, input_path, constellation, fsLog, infile, contents,
                   data, timelist, idx, curr_time, gps_millis, sp3data,
                   clkdata, warned>>
    /\ UNCHANGED pairVars

\* Lines 243-250: one iteration of the first while loop; on the break,
\* line += 1 and then line = 0.
ClkStripSoln ==
    /\ pc = "soln" /\ parser = "clk"
    /\ IF PyIndex(Len(clk), line) = 0
       THEN Raise("IndexError") /\ UNCHANGED <<clk, line>>
       ELSE IF ~Contains(clk[PyIndex(Len(clk), line)], OF_SOLN_SATS)
       THEN /\ clk' = SubSeq(clk, 1, line) \o SubSeq(clk, line + 2, Len(clk))
            /\ UNCHANGED <<line, pc, outcome>>
       ELSE /\ line' = 0
            /\ pc' = "eoh"
            /\ UNCHANGED <<clk, outcome>>
    /\ UNCHANGED <<parser, input_path, constellation, fsLog, infile, contents,
                   data, timelist, idx, curr_time, gps_millis, sp3data,
                   clkdata, warned>>
    /\ UNCHANGED pairVars

\* A variant of the second while loop that stops at the end of the list
\* (while line < len(clk)) and goes on with what is left.
ClkStripEohBounded ==
    /\ pc = "eoh" /\ parser = "clk"
    /\ IF line >= Len(clk)
       THEN pc' = "timelist" /\ UNCHANGED <<clk, line, outcome>>
       ELSE IF ~Contains(clk[line + 1], END_OF_HEADER)
       THEN /\ line' = line + 1
            /\ UNCHANGED <<clk, pc, outcome>>
       ELSE /\ clk' = SubSeq(clk, line + 2, Len(clk))
            /\ pc' = "timelist"
            /\ UNCHANGED <<line, outcome>>
    /\ UNCHANGED <<parser, input_path, constellation, fsLog, infile, contents,
                   data, timelist, idx, curr_time, gps_millis, sp3data,
                   clkdata, warned>>
    /\ UNCHANGED pairVars

\* Lines 251-256: one iteration of the second while loop.
ClkStripEoh ==
    /\ pc = "eoh" /\ parser = "clk"
    /\ IF PyIndex(Len(clk), line) = 0
       THEN Raise("IndexError") /\ UNCHANGED <<clk, line>>
       ELSE IF ~Contains(clk[PyIndex(Len(clk), line)], END_OF_HEADER)
       THEN /\ line' = line + 1
            /\ UNCHANGED <<clk, pc, outcome>>
       ELSE /\ clk' = SubSeq(clk, line + 2, Len(clk))
            /\ pc' = "timelist"
            /\ UNCHANGED <<line, outcome>>
    /\ UNCHANGED <<parser, input_path, constellation, fsLog, infile, contents,
                   data, timelist, idx, curr_time, gps_millis, sp3data,
                   clkdata, warned>>
    /\ UNCHANGED pairVars

\* Lines 258-261.
ClkTimelist ==
    /\ pc = "timelist" /\ parser = "clk"
    /\ timelist' = Timelist(clk)
    /\ idx' = 1
    /\ pc' = "records"
    /\ UNCHANGED <<parser, input_path, constellation, fsLog, infile, contents,
                   data, clk, line, curr_time, gps_millis, sp3data, clkdata,
                   warned, outcome>>
    /\ UNCHANGED pairVars

\* Lines 263-278: the loop body on the next record.
ClkRecord ==
    /\ pc = "records" /\ parser = "clk"
    /\ idx <= Len(timelist)
    /\ \E r \in {ClkRecordStep(clkdata, timelist[idx], constellation)} :
           /\ clkdata' = r.cd
           /\ LoopStep(r.err)
    /\ UNCHANGED <<parser, input_path, constellation, fsLog, infile, contents,
                   data, clk, line, timelist, curr_time, gps_millis, sp3data,
                   warned>>
    /\ UNCHANGED pairVars

\* Lines 280-290: infile.close(), the warning and the return.
ClkPost ==
    /\ pc = "records" /\ parser = "clk"
    /\ idx > Len(timelist)
    /\ infile' = "closed"
    /\ warned' = Warnings(clkdata, constellation)
    /\ pc' = "done"
    /\ outcome' = "returned"
    /\ UNCHANGED <<parser, input_path, constellation, fsLog, contents, data,
                   clk, line, timelist, idx, curr_time, gps_millis, sp3data,
                   clkdata>>
    /\ UNCHANGED pairVars

Next ==
    \/ Call
    \/ Sp3Checks
    \/ Sp3Load
    \/ Sp3Registry
    \/ Sp3Line
    \/ Sp3Post
    \/ ClkChecks
    \/ ClkRegistry
    \/ ClkRead
    \/ ClkStripSoln
    \/ ClkStripEoh
    \/ ClkTimelist
    \/ ClkRecord
    \/ ClkPost

Spec == Init /\ [][Next]_vars

(***************************************************************************)
(* Two calls in one process.  The lists of the objects are cells of a heap *)
(* that both calls can reach; the other names of a call are its locals.   *)
(* A step is the part of a call between two accesses to a list: the        *)
(* statements up to the loop, one iteration of the loop, the return.       *)
(***************************************************************************)
\* A variant of the constructor whose lists are made once, with the class,
\* and are the same objects in every instance.
Sp3NewShared(t, k) ==
    [self |-> <<t, k>>, const |-> "None",
     xpos |-> <<0, 0, "xpos">>, ypos |-> <<0, 0, "ypos">>,
     zpos |-> <<0, 0, "zpos">>, tym |-> <<0, 0, "tym">>,
     utc_time |-> <<0, 0, "utc_time">>]

\* Sp3(): the k-th object thread t constructs.  self is the identity of
\* the object; each [] is a new list, named by the place it is made at.
Sp3New(t, k) ==
    [self |-> <<t, k>>, const |-> "None",
     xpos |-> <<t, k, "xpos">>, ypos |-> <<t, k, "ypos">>,
     zpos |-> <<t, k, "zpos">>, tym |-> <<t, k, "tym">>,
     utc_time |-> <<t, k, "utc_time">>]

\* Clk(): the same for the clock objects.
ClkNew(t, k) ==
    [self |-> <<t, k>>, const |-> "None", clk_bias |-> <<t, k, "clk_bias">>,
     utc_time |-> <<t, k, "utc_time">>, tym |-> <<t, k, "tym">>]

\* The attributes of an object that are lists.
ListFields(f) ==
    IF f = "sp3" THEN {"xpos", "ypos", "zpos", "tym", "utc_time"}
    ELSE {"clk_bias", "utc_time", "tym"}

\* The objects of a store with the elements of their lists.
Deref(store, f, h) ==
    [k \in 1..Len(store) |->
        [a \in ListFields(f) \cup {"self", "const"} |->
            IF a \in {"self", "const"} THEN store[k][a] ELSE h[store[k][a]]]]

\* The lists of a store.
ListsOf(store, f) ==
    {store[k][a] : k \in 1..Len(store), a \in ListFields(f)}

\* The heap after the appends that took the lists of a store from old to
\* new, one list after the other: an append changes the list object,
\* whoever else holds it.
RECURSIVE WriteLists(_, _, _, _)
WriteLists(h, store, new, changed) ==
    IF changed = {} THEN h
    ELSE LET x == CHOOSE y \in changed : TRUE
         IN  WriteLists([h EXCEPT ![store[x[1]][x[2]]] = new[x[1]][x[2]]],
                   store, new, changed \ {x})

Appended(h, store, f, old, new) ==
    WriteLists(h, store, new,
          {x \in {k \in 1..Len(store) : new[k] # old[k]} \X ListFields(f) :
              new[x[1]][x[2]] # old[x[1]][x[2]]})

\* Lines 242-248: the first while loop, run to its end.
RECURSIVE DeleteToSoln(_)
DeleteToSoln(l) ==
    IF l = <<>> THEN [err |-> "IndexError", clk |-> l]
    ELSE IF ~Contains(l[1], OF_SOLN_SATS) THEN DeleteToSoln(Tail(l))
    ELSE [err |-> "", clk |-> l]

\* Lines 250-256: the second while loop, run to its end.
RECURSIVE DeleteToEoh(_, _)
DeleteToEoh(l, ln) ==
    IF ln >= Len(l) THEN [err |-> "IndexError", clk |-> l]
    ELSE IF ~Contains(l[ln + 1], END_OF_HEADER) THEN DeleteToEoh(l, ln + 1)
    ELSE [err |-> "", clk |-> SubSeq(l, ln + 2, Len(l))]

StripHeader(l) ==
    LET a == DeleteToSoln(l)
    IN  IF a.err # "" THEN a ELSE DeleteToEoh(a.clk, 0)

\* Lines 95-114: parse_sp3 up to its loop, on valid arguments.
PairCallSp3(t) ==
    /\ thread[t].pc = "idle"
    /\ \E c \in PairRequested(t), file \in PairFiles(PairSp3Lines) :
          \E store \in {[k \in 1..(NUMSATS[c][1] + 1) |->
                            [Sp3New(t, k) EXCEPT !.const = c]]} :
             /\ heap' = heap @@ [a \in ListsOf(store, "sp3") |-> <<>>]
             /\ thread' = [thread EXCEPT ![t] =
                    [pc |-> "loop", parser |-> "sp3", constellation |-> c,
                     file |-> file,
                     list |-> [i \in 1..Len(file) |-> Strip(file[i])],
                     idx |-> 1, ct |-> <<>>, gm |-> <<>>, store |-> store,
                     outcome |-> "none"]]
    /\ UNCHANGED callVars

\* Lines 221-261: parse_clockfile up to its loop, on valid arguments.
PairCallClk(t) ==
    /\ thread[t].pc = "idle"
    /\ \E c \in PairRequested(t), file \in PairFiles(PairClkLines) :
          \E store \in {[k \in 1..(NUMSATS[c][1] + 1) |->
                            [ClkNew(t, k) EXCEPT !.const = c]]},
             body \in {StripHeader(file)} :
             /\ heap' = heap @@ [a \in ListsOf(store, "clk") |-> <<>>]
             /\ thread' = [thread EXCEPT ![t] =
                    [pc |-> IF body.err # "" THEN "done" ELSE "loop",
                     parser |-> "clk", constellation |-> c,
                     file |-> file,
                     list |-> IF body.err # "" THEN <<>>
                              ELSE Timelist(body.clk),
                     idx |-> 1, ct |-> <<>>, gm |-> <<>>, store |-> store,
                     outcome |-> IF body.err # "" THEN body.err ELSE "none"]]
    /\ UNCHANGED callVars

\* The end of one iteration in the call of thread t, which leaves the
\* epoch context at ct and gm.
PairLoopStep(t, err, ct, gm) ==
    IF err # ""
    THEN [thread EXCEPT ![t].pc = "done", ![t].outcome = err,
                        ![t].ct = ct, ![t].gm = gm]
    ELSE [thread EXCEPT ![t].idx = @ + 1, ![t].ct = ct, ![t].gm = gm]

\* Lines 117-142: the loop body of parse_sp3 on the next line.
PairLineSp3(t) ==
    /\ thread[t].pc = "loop" /\ thread[t].parser = "sp3"
    /\ thread[t].idx <= Len(thread[t].list)
    /\ \E c \in {thread[t]}, old \in {Deref(thread[t].store, "sp3", heap)} :
          \E r \in {Sp3Step(c.list[c.idx], old, c.ct, c.gm,
                             c.constellation)} :
             /\ heap' = Appended(heap, c.store, "sp3", old, r.sd)
             /\ thread' = PairLoopStep(t, r.err, r.ct, r.gm)
    /\ UNCHANGED callVars

\* Lines 263-278: the loop body of parse_clockfile on the next record.
PairRecordClk(t) ==
    /\ thread[t].pc = "loop" /\ thread[t].parser = "clk"
    /\ thread[t].idx <= Len(thread[t].list)
    /\ \E c \in {thread[t]}, old \in {Deref(thread[t].store, "clk", heap)} :
          \E r \in {ClkRecordStep(old, c.list[c.idx], c.constellation)} :
             /\ heap' = Appended(heap, c.store, "clk", old, r.cd)
             /\ thread' = PairLoopStep(t, r.err, c.ct, c.gm)
    /\ UNCHANGED callVars

\* Lines 152 and 290: the store is returned.
PairReturn(t) ==
    /\ thread[t].pc = "loop"
    /\ thread[t].idx > Len(thread[t].list)
    /\ thread' = [thread EXCEPT ![t].pc = "done", ![t].outcome = "returned"]
    /\ UNCHANGED <<heap, callVars>>

PairNext ==
    \E t \in Threads :
        \/ PairCallSp3(t)
        \/ PairCallClk(t)
        \/ PairLineSp3(t)
        \/ PairRecordClk(t)
        \/ PairReturn(t)

PairSpec == Init /\ [][PairNext]_vars

(***************************************************************************)
(* Reading the result and the file, for the properties below.              *)
(***************************************************************************)
Returned == pc = "done" /\ outcome = "returned"
Failed == pc = "done" /\ outcome # "returned"
Supported == constellation \in DOMAIN NUMSATS
Nsvs == NUMSATS[constellation][1]
Code == NUMSATS[constellation][2]

\* The store of the running call.
Store == IF parser = "sp3" THEN sp3data ELSE clkdata

\* The lengths of the sequences of one satellite.
Lengths(s) ==
    IF parser = "sp3"
    THEN {Len(s.utc_time), Len(s.tym), Len(s.xpos), Len(s.ypos), Len(s.zpos)}
    ELSE {Len(s.utc_time), Len(s.tym), Len(s.clk_bias)}

SlotEmpty(s) == Lengths(s) = {0}

\* The j-th sample of one satellite.
Sample(s, j) ==
    IF parser = "sp3"
    THEN <<s.utc_time[j], s.tym[j], s.xpos[j], s.ypos[j], s.zpos[j]>>
    ELSE <<s.utc_time[j], s.tym[j], s.clk_bias[j]>>

Samples(s) == [j \in 1..Len(s.tym) |-> Sample(s, j)]

\* The body of a clock file: the lines after the first END OF HEADER line
\* found at or after the first OF SOLN SATS line.
FirstSoln(f) ==
    LET S == {i \in 1..Len(f) : Contains(f[i], OF_SOLN_SATS)}
    IN  IF S = {} THEN 0 ELSE CHOOSE i \in S : \A j \in S : i <= j

FirstEohFrom(f, from) ==
    LET S == {i \in from..Len(f) : Contains(f[i], END_OF_HEADER)}
    IN  IF S = {} THEN 0 ELSE CHOOSE i \in S : \A j \in S : i <= j

HeaderEnd(f) == IF FirstSoln(f) = 0 THEN 0 ELSE FirstEohFrom(f, FirstSoln(f))

\* The positions in the file of the records of a constellation code: the
\* 'P' lines of an SP3 file, the 'AS' lines of the body of a clock file.
RecordLines(code) ==
    IF parser = "sp3"
    THEN {i \in 1..Len(contents) :
            /\ Sp3IsPos(Strip(contents[i]))
            /\ Len(contents[i].tok[1]) >= 2
            /\ contents[i].tok[1][2] = code}
    ELSE LET h == HeaderEnd(contents)
         IN  IF h = 0 THEN {}
             ELSE {i \in (h + 1)..Len(contents) :
                     /\ ClkIsAS(contents[i])
                     /\ Len(contents[i].tok) >= 2
                     /\ contents[i].tok[2][1] = code}

\* The satellite number written in the designator of record i.
RecordNumber(i) ==
    IF parser = "sp3"
    THEN PyInt(SubSeq(contents[i].tok[1], 3, Len(contents[i].tok[1]))).val
    ELSE PyInt(Tail(contents[i].tok[2])).val

\* The last epoch header before line i of an SP3 file, 0 when there is none.
LastHeader(i) ==
    LET H == {j \in 1..(i - 1) : Sp3IsEpoch(Strip(contents[j]))}
    IN  IF H = {} THEN 0 ELSE CHOOSE j \in H : \A h \in H : h <= j

\* The time a record is to be stamped with: the time of the last epoch
\* header before it (SP3), its own time fields (CLK).
RecordTime(i) ==
    IF parser = "sp3"
    THEN ReadTime(contents[LastHeader(i)].tok, 2).time
    ELSE ReadTime(contents[i].tok, 3).time

\* The sample a record is to give.
RecordSample(i) ==
    IF parser = "sp3"
    THEN <<RecordTime(i), datetime_to_gps_millis(RecordTime(i)),
           PyFloat(contents[i].tok[2]).val * 1000,
           PyFloat(contents[i].tok[3]).val * 1000,
           PyFloat(contents[i].tok[4]).val * 1000>>
    ELSE <<RecordTime(i), datetime_to_gps_millis(RecordTime(i)),
           PyFloat(contents[i].tok[10]).val>>

\* The elements of a set of positions, in increasing order.
RECURSIVE Ascending(_)
Ascending(S) ==
    IF S = {} THEN <<>>
    ELSE LET m == CHOOSE i \in S : \A j \in S : i <= j
         IN  <<m>> \o Ascending(S \ {m})

NonDecreasing(q) == \A i \in 1..(Len(q) - 1) : q[i] <= q[i + 1]

(***************************************************************************)
(* C1: index 0 of the store returned by parse_sp3 and by parse_clockfile   *)
(* is never populated: all of its sequences are empty, whatever the file   *)
(* holds (also a record of the constellation whose number reads 0).        *)
(***************************************************************************)
C1_IndexZeroEmpty == Returned => SlotEmpty(Store[1])

C3_RightSatellite ==
    Returned =>
        \A k \in 1..Len(Store) :
            Len(Store[k].tym) =
                IF (k - 1) \in 1..Nsvs
                THEN Cardinality({i \in RecordLines(Code) :
                                      RecordNumber(i) = k - 1})
                ELSE 0

(***************************************************************************)
(* C4, as stated: in every slot of the returned store the time-base values *)
(* are in non-decreasing order, for any file that parses, also one whose   *)
(* epoch headers or clock records are not in chronological order.          *)
(***************************************************************************)
C4_TimeOrdered ==
    Returned => \A k \in 1..Len(Store) : NonDecreasing(Store[k].tym)

\* Of the records recs (file positions, in file order), those stored in
\* slot k of a list of n slots: list position number, as Python indexes.
StoredIn(recs, n, k) ==
    SelectSeq(recs, LAMBDA i : PyIndex(n, RecordNumber(i)) = k)

\* The time-base values of the epoch headers (SP3) or of the clock records
\* of the requested constellation (CLK), in file order.
FileTimes ==
    LET R == IF parser = "sp3"
             THEN {i \in 1..Len(contents) : Sp3IsEpoch(Strip(contents[i]))}
             ELSE RecordLines(Code)
        t(i) == ReadTime(contents[i].tok, IF parser = "sp3" THEN 2 ELSE 3).time
    IN  [j \in 1..Cardinality(R) |-> datetime_to_gps_millis(t(Ascending(R)[j]))]

(***************************************************************************)
(* C4, amended: in every slot of the returned store the time-base values   *)
(* are those of the records stored in it, in file order; they are in       *)
(* non-decreasing order when the epoch headers of the SP3 file, or the     *)
(* clock records of the requested constellation in the CLK file, are in    *)
(* chronological order.                                                    *)
(***************************************************************************)
C4_FileOrdered ==
    Returned =>
        LET recs == Ascending(RecordLines(Code))
            n    == Len(Store)
            chronological == NonDecreasing(FileTimes)
        IN  \A k \in 1..n :
                LET mine == StoredIn(recs, n, k)
                IN  /\ Store[k].tym =
                          [j \in 1..Len(mine) |->
                              datetime_to_gps_millis(RecordTime(mine[j]))]
                    /\ chronological => NonDecreasing(Store[k].tym)

C4_Witness ==
    /\ Returned
    /\ NonDecreasing(FileTimes)
    /\ \E k \in 1..Len(Store) :
          Len(Store[k].tym) >= 2 /\ Store[k].tym[1] < Store[k].tym[2]

(***************************************************************************)
(* C5: in parse_sp3 a position line of the requested constellation that    *)
(* comes before any epoch header is rejected: while the epoch context      *)
(* (current timestamp, current time-base value) is undefined no sample is  *)
(* in any sequence of any slot, and no call returns with such a line       *)
(* in the file and the context still undefined.                            *)
(***************************************************************************)
C5_NoSampleWithoutEpoch ==
    (parser = "sp3" /\ (curr_time = <<>> \/ gps_millis = <<>>)) =>
        /\ \A k \in 1..Len(sp3data) : SlotEmpty(sp3data[k])
        /\ Returned => RecordLines(Code) = {}

C5_Witness ==
    /\ parser = "sp3" /\ pc = "done" /\ outcome = "UnboundLocalError"
    /\ curr_time = <<>>
    /\ idx \in RecordLines(Code)

C7_ExactlyRequestedRecords ==
    Returned =>
        LET recs == Ascending(RecordLines(Code))
        IN  \A k \in 1..Len(Store) :
                LET mine == SelectSeq(recs, LAMBDA i : RecordNumber(i) = k - 1)
                IN  Samples(Store[k]) =
                        [j \in 1..Len(mine) |-> RecordSample(mine[j])]

(***************************************************************************)
(* C8: in parse_sp3 every position record is stamped with the epoch        *)
(* context of the last epoch header before it in the file: after any       *)
(* number of lines, the timestamps and time-base values of each slot are   *)
(* those of the last header before each record stored in it, and the       *)
(* current context is that of the last header read.                        *)
(***************************************************************************)
C8_StampedByLastHeader ==
    (parser = "sp3" /\ pc \in {"loop", "done"}
                    /\ outcome \in {"none", "returned"}) =>
        LET recs == SelectSeq(Ascending(RecordLines(Code)),
                              LAMBDA i : i < idx)
            n    == Len(sp3data)
            h    == LastHeader(idx)
        IN  /\ curr_time = IF h = 0 THEN <<>>
                           ELSE <<ReadTime(contents[h].tok, 2).time>>
            /\ gps_millis = IF h = 0 THEN <<>>
                            ELSE <<datetime_to_gps_millis(
                                       ReadTime(contents[h].tok, 2).time)>>
            /\ \A k \in 1..n :
                   LET mine == StoredIn(recs, n, k)
                   IN  /\ sp3data[k].utc_time =
                             [j \in 1..Len(mine) |-> RecordTime(mine[j])]
                       /\ sp3data[k].tym =
                             [j \in 1..Len(mine) |->
                                 datetime_to_gps_millis(RecordTime(mine[j]))]

C8_Witness ==
    /\ parser = "sp3" /\ Returned
    /\ \E k \in 1..Len(sp3data) :
          /\ Len(sp3data[k].tym) >= 2
          /\ sp3data[k].tym[1] > sp3data[k].tym[2]

(***************************************************************************)
(* C9: in every returned store the sequences of each satellite (five for   *)
(* parse_sp3, three for parse_clockfile) have equal length; a store in     *)
(* which an append reached only some of the sequences of a satellite,      *)
(* because a later field of the record failed to parse, belongs to a call  *)
(* that failed and is returned to no caller.                               *)
(***************************************************************************)
C9_EqualLengths ==
    \A k \in 1..Len(Store) :
        Cardinality(Lengths(Store[k])) # 1 => Failed

C9_Witness ==
    /\ Failed
    /\ outcome = "ValueError"
    /\ \E k \in 1..Len(Store) : Cardinality(Lengths(Store[k])) > 1

(***************************************************************************)
(* C10, as stated: parse_clockfile ends with a fatal error, and returns no *)
(* store, on a file with no line containing "OF SOLN SATS" or with no line *)
(* containing "END OF HEADER" after the "OF SOLN SATS" line.               *)
(***************************************************************************)
ClkWasRead == parser = "clk" /\ infile = "closed"

C10_MissingMarkerFatal ==
    (ClkWasRead /\ pc = "done"
       /\ (\/ FirstSoln(contents) = 0
           \/ FirstEohFrom(contents, FirstSoln(contents) + 1) = 0))
        => Failed

(***************************************************************************)
(* C10, amended: parse_clockfile ends with a fatal error (IndexError), and *)
(* returns no store, on a file with no line containing "OF SOLN SATS" or   *)
(* with no line containing "END OF HEADER" at or after the first line      *)
(* containing "OF SOLN SATS" (the empty file included).                    *)
(***************************************************************************)
C10_MissingMarkerFatalAtOrAfter ==
    (ClkWasRead /\ HeaderEnd(contents) = 0) =>
        /\ pc \in {"soln", "eoh", "done"}
        /\ pc = "done" => outcome = "IndexError"

C10_Witness ==
    /\ ClkWasRead
    /\ pc = "done" /\ outcome = "IndexError"
    /\ FirstSoln(contents) # 0
    /\ HeaderEnd(contents) = 0

(***************************************************************************)
(* The lines whose fields do not read: a field that is missing or is no    *)
(* number of its type, or a date that is no date.                          *)
(***************************************************************************)
NoInt(tok, i) == Len(tok) < i \/ ~PyInt(tok[i]).ok
NoFloat(tok, i) == Len(tok) < i \/ ~PyFloat(tok[i]).ok

\* Six time fields starting at position i.
NoDate(tok, i) ==
    \/ \E j \in i..(i + 4) : NoInt(tok, j)
    \/ NoFloat(tok, i + 5)
    \/ ~datetime(PyInt(tok[i]).val, PyInt(tok[i + 1]).val,
                 PyInt(tok[i + 2]).val, PyInt(tok[i + 3]).val,
                 PyInt(tok[i + 4]).val,
                 FloatToInt(PyFloat(tok[i + 5]).val)).ok

\* A '*' line or a 'P' line of an SP3 file, stripped.
Sp3Malformed(l) ==
    IF Sp3IsEpoch(l) THEN NoDate(l.tok, 2)
    ELSE \/ Len(l.tok[1]) < 2
         \/ ~PyInt(SubSeq(l.tok[1], 3, Len(l.tok[1]))).ok
         \/ \E j \in 2..4 : NoFloat(l.tok, j)

\* An 'AS' line of a clock file.
ClkMalformed(l) ==
    \/ Len(l.tok) < 2
    \/ ~PyInt(Tail(l.tok[2])).ok
    \/ NoDate(l.tok, 3)
    \/ NoFloat(l.tok, 10)

\* The positions of the lines that begin as a record: '*' and 'P' lines
\* (SP3), 'AS' lines (CLK), of any constellation, anywhere in the file.
PrefixLines ==
    IF parser = "sp3"
    THEN {i \in 1..Len(contents) :
            Sp3IsEpoch(Strip(contents[i])) \/ Sp3IsPos(Strip(contents[i]))}
    ELSE {i \in 1..Len(contents) : ClkIsAS(contents[i])}

\* The positions of the lines the call reads the fields of: the epoch
\* headers and the records of the requested constellation.
ParsedLines ==
    IF parser = "sp3"
    THEN {i \in 1..Len(contents) : Sp3IsEpoch(Strip(contents[i]))}
         \cup RecordLines(Code)
    ELSE RecordLines(Code)

Malformed(i) ==
    IF parser = "sp3" THEN Sp3Malformed(Strip(contents[i]))
    ELSE ClkMalformed(contents[i])

(***************************************************************************)
(* C11, as stated: a call on a file with a line that begins as a record    *)
(* ('*' or 'P' in an SP3 file, 'AS' in a clock file) and whose fields do   *)
(* not read ends with an error and returns no store, whichever             *)
(* constellation the line names.                                           *)
(***************************************************************************)
C11_MalformedFatal ==
    (pc = "done" /\ \E i \in PrefixLines : Malformed(i)) => Failed

(***************************************************************************)
(* C11, amended: a call ends with an error and returns no store when       *)
(* a line whose fields do not read is an epoch header of the SP3 file, a   *)
(* position line of the requested constellation, or an 'AS' record of the  *)
(* requested constellation in the body of the clock file; a record line    *)
(* of another constellation is skipped without its fields being read.      *)
(***************************************************************************)
C11_MalformedFatalRequested ==
    (pc = "done" /\ Supported /\ \E i \in ParsedLines : Malformed(i))
        => Failed

C11_Witness ==
    /\ pc = "done" /\ outcome = "ValueError"
    /\ parser = "clk" /\ constellation = "qzss"
    /\ idx = Len(timelist)
    /\ Len(contents) \in ParsedLines
    /\ Malformed(Len(contents))

(***************************************************************************)
(* C13: when a call has ended, by a return or by an exception, no file is  *)
(* open: a call that opened its file has closed it, and the close follows  *)
(* the open in the order of the filesystem operations; a call that ended   *)
(* before the open has no file object.                                     *)
(***************************************************************************)
Opened == \E i \in 1..Len(fsLog) : fsLog[i] = "open"

C13_HandleReleased ==
    pc = "done" =>
        /\ infile # "open"
        /\ IF Opened
           THEN /\ infile = "closed"
                /\ \A i \in 1..Len(fsLog) :
                       fsLog[i] = "open" =>
                           \E j \in (i + 1)..Len(fsLog) : fsLog[j] = "close"
           ELSE infile = "none"

C13_Witness ==
    /\ parser = "clk"
    /\ pc = "done" /\ outcome = "IndexError"
    /\ Opened /\ infile = "closed"
    /\ HeaderEnd(contents) # 0
    /\ idx >= 2

(***************************************************************************)
(* C14: parse_clockfile and parse_sp3 have one precondition contract: the  *)
(* way a call ends on its arguments depends on the arguments only, not on  *)
(* the function called.  A path that is no string gives TypeError with no  *)
(* filesystem operation, a path that does not exist gives OSError with     *)
(* nothing opened or read, a constellation that is no registry key gives   *)
(* RuntimeError, and with valid arguments none of the three is raised.     *)
(***************************************************************************)
PreconditionErrors == {"TypeError", "OSError", "RuntimeError"}

\* What the contract gives for the arguments: an error class or "passed".
Contract(path, c) ==
    IF ~path.isStr THEN "TypeError"
    ELSE IF ~path.exists THEN "OSError"
    ELSE IF c \notin DOMAIN NUMSATS THEN "RuntimeError"
    ELSE "passed"

C14_SamePreconditionContract ==
    /\ pc = "done" =>
          /\ Contract(input_path, constellation) =
                 IF outcome \in PreconditionErrors THEN outcome ELSE "passed"
          /\ outcome = "TypeError" => fsLog = <<>>
          /\ outcome = "OSError" => fsLog = <<"exists">>
    /\ pc \notin {"idle", "checks", "load", "registry", "done"} =>
          Contract(input_path, constellation) = "passed"

C14_Witness ==
    /\ parser = "clk"
    /\ pc = "done" /\ outcome = "RuntimeError"
    /\ input_path.isStr /\ input_path.exists
    /\ fsLog = <<"exists">>

(***************************************************************************)
(* C15: for an SP3 file with exactly one epoch header followed by exactly  *)
(* one position record of the requested constellation, whose fields read   *)
(* and whose number p is in 1..max_satellites, parse_sp3 returns a store   *)
(* of max_satellites+1 slots, each tagged with the constellation; slot p   *)
(* holds sequences of length 1, with the timestamp and the time-base value *)
(* of the header and x, y, z equal to the kilometres of the record times   *)
(* 1000, and every other slot is empty.                                    *)
(***************************************************************************)
EpochLines == {i \in 1..Len(contents) : Sp3IsEpoch(Strip(contents[i]))}

C15_OneEpochOneRecord ==
    (parser = "sp3" /\ pc = "done" /\ Supported) =>
        \A e \in EpochLines, r \in RecordLines(Code) :
            (/\ EpochLines = {e} /\ RecordLines(Code) = {r} /\ e < r
             /\ ~Malformed(e) /\ ~Malformed(r)
             /\ RecordNumber(r) \in 1..Nsvs)
            => /\ Returned
               /\ Len(sp3data) = Nsvs + 1
               /\ \A k \in 1..Len(sp3data) :
                      sp3data[k] =
                          IF k - 1 = RecordNumber(r)
                          THEN [const |-> constellation,
                                utc_time |-> <<RecordSample(r)[1]>>,
                                tym  |-> <<RecordSample(r)[2]>>,
                                xpos |-> <<RecordSample(r)[3]>>,
                                ypos |-> <<RecordSample(r)[4]>>,
                                zpos |-> <<RecordSample(r)[5]>>]
                          ELSE [Sp3Init EXCEPT !.const = constellation]

\* '*  1980 1 6 0 0 1.5' and 'PJ01 1.5 2.5 -3.5', one second after the GPS
\* epoch: 1000 ms, and 1500, 2500 and -3500 m (kept in thousandths).
C15_Witness ==
    /\ parser = "sp3" /\ Returned /\ constellation = "qzss"
    /\ Cardinality(EpochLines) = 1
    /\ Cardinality(RecordLines("J")) = 1
    /\ Len(sp3data) = 4
    /\ sp3data[2].tym = <<1000>>
    /\ sp3data[2].xpos = <<1500000>>
    /\ sp3data[2].ypos = <<2500000>>
    /\ sp3data[2].zpos = <<-3500000>>
    /\ \A k \in {1, 3, 4} : SlotEmpty(sp3data[k])

(***************************************************************************)
(* C16: the two while loops of parse_clockfile, which delete from the list *)
(* in place, leave the body that two scans of the lines as read select:    *)
(* the lines after the first line containing "END OF HEADER" at or after   *)
(* the first line containing "OF SOLN SATS".  The records read are the     *)
(* 'AS' lines of that body, in order; an 'AS' line at or before the        *)
(* terminator gives no sample, and in a returned store every 'AS' record   *)
(* of the requested constellation after it gives one sample, in the slot   *)
(* its number indexes.                                                     *)
(***************************************************************************)
Body(f) == SubSeq(f, HeaderEnd(f) + 1, Len(f))

C16_BodyOfTwoScans ==
    parser = "clk" =>
        /\ (pc \in {"timelist", "records"} \/ Returned) =>
               /\ HeaderEnd(contents) # 0
               /\ clk = Body(contents)
        /\ (pc = "records" \/ Returned) =>
               LET as == SelectSeq(Body(contents), ClkIsAS)
               IN  timelist = [j \in 1..Len(as) |-> as[j].tok]
        /\ Returned =>
               LET recs == Ascending(RecordLines(Code))
                   n    == Len(clkdata)
               IN  \A k \in 1..n :
                       LET mine == StoredIn(recs, n, k)
                       IN  Samples(clkdata[k]) =
                               [j \in 1..Len(mine) |-> RecordSample(mine[j])]

\* A record of the requested constellation in the header and another,
\* half a second later, in the body: only the second is in the store.
C16_Witness ==
    /\ parser = "clk" /\ Returned /\ constellation = "qzss"
    /\ \E i \in 1..HeaderEnd(contents) :
          contents[i] = ClkAS(0, "J", <<"0", "1">>, Sec00, Km15)
    /\ clkdata[2].tym = <<1000>>
    /\ clkdata[2].clk_bias = <<2500>>

(***************************************************************************)
(* C18: in parse_sp3 the loop body on a blank line, on a line that is      *)
(* neither an epoch header nor a position record, or on a position record  *)
(* of another constellation than the requested one raises nothing and      *)
(* changes nothing but the position of the loop: every slot of the store,  *)
(* the current timestamp and the current time-base value stay as they      *)
(* were.                                                                   *)
(***************************************************************************)
Skipped(dval, c) ==
    \/ Sp3IsBlank(dval)
    \/ ~Sp3IsEpoch(dval) /\ ~Sp3IsPos(dval)
    \/ /\ Sp3IsPos(dval)
       /\ Len(dval.tok[1]) >= 2
       /\ dval.tok[1][2] # NUMSATS[c][2]

C18_SkippedLineChangesNothing ==
    [][(/\ parser = "sp3" /\ pc = "loop" /\ idx <= Len(data)
        /\ Skipped(data[idx], constellation))
       => (/\ pc' = "loop" /\ outcome' = "none"
           /\ idx' = idx + 1
           /\ sp3data' = sp3data
           /\ curr_time' = curr_time
           /\ gps_millis' = gps_millis)]_vars

\* A line that is not blank was skipped after a sample was stored.
C18_Witness ==
    /\ parser = "sp3" /\ pc = "loop" /\ idx >= 3
    /\ Skipped(data[idx - 1], constellation)
    /\ ~Sp3IsBlank(data[idx - 1])
    /\ curr_time # <<>>
    /\ \E k \in 1..Len(sp3data) : ~SlotEmpty(sp3data[k])

(***************************************************************************)
(* C17: every call ends, with a return or with an exception, after a       *)
(* number of steps the file bounds.  Every step lowers a natural number:   *)
(* the statements left to run and, within a loop, the elements left to     *)
(* visit.  A call that has not ended can take a step that changes its      *)
(* state: the two for loops visit each element of their list once and the  *)
(* first marker loop deletes a line at each iteration while the second     *)
(* advances over the lines that are left, so each marker loop is left, to  *)
(* the next statement or with IndexError, whether the marker is in the     *)
(* file or not.                                                            *)
(***************************************************************************)
\* The statements left to run after the one at pc.
Stage ==
    CASE pc = "done" -> 0
      [] pc \in {"loop", "records"} -> 1
      [] pc = "timelist" -> 2
      [] pc = "eoh" -> 3
      [] pc = "soln" -> 4
      [] pc = "read" -> 5
      [] pc = "registry" -> IF parser = "sp3" THEN 2 ELSE 6
      [] pc = "load" -> 3
      [] pc = "checks" -> 7
      [] pc = "idle" -> 8

\* The iterations left to the loop at pc, at most.
Remaining ==
    CASE pc = "loop" -> Len(data) + 1 - idx
      [] pc = "records" -> Len(timelist) + 1 - idx
      [] pc = "soln" -> Len(clk)
      [] pc = "eoh" -> Len(clk) - line
      [] OTHER -> 0

Measure == Stage * (Len(contents) + 2) + Remaining

\* The statements between the reading of the file and the for loop.
Straight ==
    \/ Sp3Checks \/ Sp3Registry
    \/ ClkChecks \/ ClkRegistry \/ ClkStripSoln \/ ClkStripEoh \/ ClkTimelist

C17_Terminates ==
    /\ [](pc \in {"checks", "registry", "soln", "eoh", "timelist"}
             => ENABLED <<Straight>>_vars)
    /\ [](pc = "loop" => idx \in 1..(Len(data) + 1))
    /\ [](pc = "records" => idx \in 1..(Len(timelist) + 1))
    /\ []((pc = "loop" /\ idx > Len(data)) => ENABLED <<Sp3Post>>_vars)
    /\ []((pc = "records" /\ idx > Len(timelist)) => ENABLED <<ClkPost>>_vars)
    /\ [](Remaining \in 0..(Len(contents) + 1))
    /\ [][Len(contents') = Len(contents) => Measure' < Measure]_vars
    /\ [][Len(contents') # Len(contents) => pc \in {"load", "read"}]_vars

\* The first marker loop ran to the end of a file of MaxLines lines without
\* the marker, and the second to the end of what the first had left.
C17_Witness ==
    /\ parser = "clk" /\ pc = "done" /\ outcome = "IndexError"
    /\ Len(contents) = MaxLines
    /\ \/ FirstSoln(contents) = 0 /\ clk = <<>>
       \/ FirstSoln(contents) = 1 /\ line = MaxLines

(***************************************************************************)
(* Reading the calls of two threads.                                       *)
(***************************************************************************)
\* The store of thread t with the elements of its lists.
View(t) == Deref(thread[t].store, thread[t].parser, heap)

\* The same call made alone: the loop run over the file from a store of
\* new objects, with nothing else in the process.
RECURSIVE Sp3Fold(_, _, _)
Sp3Fold(list, acc, c) ==
    IF list = <<>> \/ acc.err # "" THEN acc
    ELSE Sp3Fold(Tail(list),
                 Sp3Step(Head(list), acc.sd, acc.ct, acc.gm, c), c)

RECURSIVE ClkFold(_, _, _)
ClkFold(list, acc, c) ==
    IF list = <<>> \/ acc.err # "" THEN acc
    ELSE ClkFold(Tail(list), ClkRecordStep(acc.cd, Head(list), c), c)

Alone(f, file, c) ==
    IF f = "sp3"
    THEN LET r == Sp3Fold([i \in 1..Len(file) |-> Strip(file[i])],
                          [err |-> "", sd |-> NewStore(Sp3Init, c),
                           ct |-> <<>>, gm |-> <<>>], c)
         IN  [err |-> r.err, store |-> r.sd]
    ELSE LET b == StripHeader(file)
             r == ClkFold(Timelist(b.clk),
                          [err |-> "", cd |-> NewStore(ClkInit, c)], c)
         IN  IF b.err # "" THEN [err |-> b.err, store |-> <<>>]
             ELSE [err |-> r.err, store |-> r.cd]

\* Two objects with the same tag and the same elements in every list.
SameContent(a, b, f) ==
    a.const = b.const /\ \A x \in ListFields(f) : a[x] = b[x]

ChangedSlots ==
    {x \in UNION {{t} \X (1..Len(thread[t].store)) : t \in Threads} :
        /\ thread'[x[1]].store = thread[x[1]].store
        /\ Deref(thread[x[1]].store, thread[x[1]].parser, heap')[x[2]]
              # View(x[1])[x[2]]}

C19_NoSharedState ==
    /\ [](\A t \in Threads :
             Cardinality(ListsOf(thread[t].store, thread[t].parser))
                = Len(thread[t].store)
                    * Cardinality(ListFields(thread[t].parser)))
    /\ [](ListsOf(thread[1].store, thread[1].parser)
            \cap ListsOf(thread[2].store, thread[2].parser) = {})
    /\ [](\A t \in Threads :
             thread[t].pc = "done" =>
                 LET a == Alone(thread[t].parser, thread[t].file,
                                thread[t].constellation)
                 IN  /\ thread[t].outcome =
                            IF a.err = "" THEN "returned" ELSE a.err
                     /\ thread[t].outcome = "returned" =>
                            /\ Len(View(t)) = Len(a.store)
                            /\ \A k \in 1..Len(a.store) :
                                   SameContent(View(t)[k], a.store[k],
                                               thread[t].parser))
    /\ [][Cardinality(ChangedSlots) <= 1]_vars

\* Both calls returned data: parse_sp3 for qzss and parse_clockfile for
\* gps, on different files.
C19_Witness ==
    /\ thread[1].pc = "done" /\ thread[1].outcome = "returned"
    /\ thread[2].pc = "done" /\ thread[2].outcome = "returned"
    /\ thread[1].parser = "sp3" /\ thread[2].parser = "clk"
    /\ thread[2].constellation = "gps"
    /\ View(1)[2].xpos = <<1500000>>
    /\ View(2)[2].clk_bias = <<1500>>

====
